---- MODULE Spec2Model ----
(***************************************************************************)
(* Model of the Raider.IO teammate analytics pipeline                      *)
(* (src/main.py, src/api.py, src/character_runs.py, src/analytics.py).     *)
(*                                                                         *)
(* JSON payloads are Python values.  A value is a record tagged by t:      *)
(*   [t |-> "none"]                    None, and what dict.get gives for   *)
(*                                     a missing key                       *)
(*   [t |-> "int",  v |-> n]           an integer                          *)
(*   [t |-> "str",  v |-> <<c, ...>>]  a string, as its characters         *)
(*   [t |-> "list", v |-> <<x, ...>>]  a list                              *)
(*   [t |-> "dict", v |-> f]           a dict: f maps its keys to values   *)
(***************************************************************************)
EXTENDS Integers, Sequences, FiniteSets, TLC

VARIABLES
    pc,               \* position of the program
    error,            \* the exception that ended the program, "" if none
    self_name,        \* cfg["name"], the subject's name (a Python str)
    character_id,     \* result of scrape_character_id, 0 before
    profile,          \* history: the body the profile endpoint answered, None before
    dungeon_ids,      \* result of fetch_dungeon_ids (sorted sequence)
    d_idx,            \* position of the per-dungeon loop
    fetched,          \* history: every run record the discovery loop saw, in order
    runs,             \* the deduplicated run list
    seen_run_ids,     \* the set seen_run_ids / seen_ids
    idx,              \* position of build_teammate_stats' loop
    teammate_counter, \* the Counter being built
    outcomes,         \* history: one record per loop iteration of build_teammate_stats
    calls,            \* history: outbound requests and pauses, in order
    result,           \* what build_teammate_stats returned
    chart,            \* what plot_teammates saved
    arg,              \* input of a function applied on its own
    ret               \* its result

vars == <<pc, error, self_name, character_id, profile, dungeon_ids, d_idx, fetched, runs,
          seen_run_ids, idx, teammate_counter, outcomes, calls, result, chart,
          arg, ret>>

----------------------------------------------------------------------------
(* Bounds of the model *)

\* run ids are 1..MaxRunId
MaxRunId == 2
\* dungeon (zone) ids are 1..MaxDungeons
MaxDungeons == 2
\* run records the discovery stage receives in all, over its run-list fetches
MaxFetched == 3
\* length of a run list handed to build_teammate_stats called on its own
MaxRuns == 2

----------------------------------------------------------------------------
(* Python values *)

PyNone == [t |-> "none"]
PyInt(n) == [t |-> "int", v |-> n]
PyStr(s) == [t |-> "str", v |-> s]
PyList(l) == [t |-> "list", v |-> l]
PyDict(d) == [t |-> "dict", v |-> d]

EmptyStr == PyStr(<<>>)
EmptyList == PyList(<<>>)
EmptyDict == PyDict(<<>>)

IsDict(x) == x.t = "dict"
IsList(x) == x.t = "list"
IsStr(x) == x.t = "str"

\* bool(x)
Truthy(x) ==
    CASE x.t = "none" -> FALSE
      [] x.t = "int" -> x.v # 0
      [] x.t = "str" -> Len(x.v) # 0
      [] x.t = "list" -> Len(x.v) # 0
      [] x.t = "dict" -> DOMAIN x.v # {}

\* a or b
Or(a, b) == IF Truthy(a) THEN a ELSE b

\* key in d
HasKey(d, k) == k \in DOMAIN d.v

\* d.get(k, dflt) and d.get(k)
GetDefault(d, k, dflt) == IF HasKey(d, k) THEN d.v[k] ELSE dflt
Get(d, k) == GetDefault(d, k, PyNone)

\* the dict f restricted to the keys K
Restrict(f, K) == [k \in K |-> f[k]]

Digit(n) == CASE n = 0 -> "0" [] n = 1 -> "1" [] n = 2 -> "2" [] n = 3 -> "3"
              [] n = 4 -> "4" [] n = 5 -> "5" [] n = 6 -> "6" [] n = 7 -> "7"
              [] n = 8 -> "8" [] n = 9 -> "9"

RECURSIVE Digits(_)
Digits(n) == IF n < 10 THEN <<Digit(n)>> ELSE Digits(n \div 10) \o <<Digit(n % 10)>>

\* format(x, ""), as an f-string field does: the characters of str(x)
Str(x) ==
    CASE x.t = "none" -> <<"N", "o", "n", "e">>
      [] x.t = "str" -> x.v
      [] x.t = "int" -> IF x.v < 0 THEN <<"-">> \o Digits(-x.v) ELSE Digits(x.v)

\* str.lower() on the letters the model uses
LowerChar(c) ==
    CASE c = "A" -> "a" [] c = "B" -> "b" [] c = "C" -> "c" [] c = "L" -> "l"
      [] c = "O" -> "o" [] c = "N" -> "n" [] c = "S" -> "s" [] c = "R" -> "r"
      [] OTHER -> c

Lower(s) == [i \in DOMAIN s |-> LowerChar(s[i])]

----------------------------------------------------------------------------
(* api.py: extract_run_id *)

\* A mutated extract_run_id: `id` is tried before `keystone_run_id`.
extract_run_id_id_first(run) ==
    IF ~IsDict(run) THEN PyNone
    ELSE LET run_id == Or(Get(run, "id"), Get(run, "keystone_run_id"))
             summary == Get(run, "summary")
         IN  IF Truthy(run_id) THEN run_id
             ELSE IF IsDict(summary)
                  THEN Or(Get(summary, "id"), Get(summary, "keystone_run_id"))
                  ELSE PyNone

extract_run_id(run) ==
    IF ~IsDict(run) THEN PyNone
    ELSE LET run_id == Or(Get(run, "keystone_run_id"), Get(run, "id"))
             summary == Get(run, "summary")
         IN  IF Truthy(run_id) THEN run_id
             ELSE IF IsDict(summary)
                  THEN Or(Get(summary, "keystone_run_id"), Get(summary, "id"))
                  ELSE PyNone

----------------------------------------------------------------------------
(* Results of calls that may raise *)

Ok(x) == [ok |-> TRUE, v |-> x, e |-> ""]
Raise(exc) == [ok |-> FALSE, v |-> PyNone, e |-> exc]

\* An HTTP response: requests.get + raise_for_status + response.json() either
\* raise (a transport error, a non-success status, an unparsable body) or give
\* the decoded body.
RequestFailed == [ok |-> FALSE, data |-> PyNone]
Body(data) == [ok |-> TRUE, data |-> data]

----------------------------------------------------------------------------
(* api.py: RaiderIOClient.fetch_run_roster *)

\* member.get("character", member)
unwrap_character(member) == GetDefault(member, "character", member)

\* the characters one encounter of logged_details adds, in order
encounter_characters(enc) ==
    LET members == GetDefault(enc, "roster", EmptyList).v
        unwrapped == [i \in DOMAIN members |-> unwrap_character(members[i])]
    IN  SelectSeq(unwrapped, Truthy)

RECURSIVE logged_characters(_)
logged_characters(encs) ==
    IF Len(encs) = 0 THEN <<>>
    ELSE encounter_characters(Head(encs)) \o logged_characters(Tail(encs))

\* the traversal of logged_details raises: something iterated is no list, or
\* .get is called on something that is no dict
logged_raises(logged) ==
    \/ ~IsDict(logged)
    \/ LET encs == GetDefault(logged, "encounters", EmptyList)
       IN  \/ ~IsList(encs)
           \/ \E i \in DOMAIN encs.v :
                 \/ ~IsDict(encs.v[i])
                 \/ LET r == GetDefault(encs.v[i], "roster", EmptyList)
                    IN  \/ ~IsList(r)
                        \/ \E j \in DOMAIN r.v : ~IsDict(r.v[j])

\* lines 84-102: the roster a decoded run-details body gives
roster_of_payload(data) ==
    IF ~IsDict(data) THEN Raise("TypeError")
    ELSE IF HasKey(data, "roster")
    THEN LET r == data.v["roster"]
         IN  IF ~IsList(r) THEN Raise("TypeError")
             ELSE IF \E i \in DOMAIN r.v : ~IsDict(r.v[i]) THEN Raise("AttributeError")
             ELSE Ok(PyList([i \in DOMAIN r.v |-> unwrap_character(r.v[i])]))
    ELSE IF HasKey(data, "participants")
    THEN Ok(data.v["participants"])
    ELSE LET logged == Or(Get(data, "logged_details"), EmptyDict)
         IN  IF logged_raises(logged) THEN Raise("AttributeError")
             ELSE LET characters ==
                          logged_characters(GetDefault(logged, "encounters", EmptyList).v)
                  IN  IF Len(characters) # 0 THEN Ok(PyList(characters))
                      ELSE Ok(GetDefault(data, "characters", EmptyList))

fetch_run_roster(response) ==
    IF ~response.ok THEN Raise("RequestFailed") ELSE roster_of_payload(response.data)

----------------------------------------------------------------------------
(* analytics.py: build_teammate_stats, the body of the roster loop *)

\* A mutated realm resolution: a realm object's `name` is tried before its `slug`.
resolve_realm_name_first(character) ==
    LET realm == Or(Get(character, "realm"), GetDefault(character, "realm_slug", EmptyStr))
    IN  IF IsDict(realm)
        THEN Or(Or(Get(realm, "name"), Get(realm, "slug")), EmptyStr)
        ELSE realm

\* lines 37-40: the realm of a roster entry
resolve_realm(character) ==
    LET realm == Or(Get(character, "realm"), GetDefault(character, "realm_slug", EmptyStr))
    IN  IF IsDict(realm)
        THEN Or(Or(Get(realm, "slug"), Get(realm, "name")), EmptyStr)
        ELSE realm

\* line 42: full = f"{name}-{realm}" if realm else name
full_identity(name, realm) ==
    IF Truthy(realm) THEN PyStr(Str(name) \o <<"-">> \o Str(realm)) ELSE name

\* A mutated self test: the names are compared as they are.
is_self_exact(name, subject) == name.v = subject.v

\* line 44: name.lower() == self_name.lower()
is_self(name, subject) == Lower(name.v) = Lower(subject.v)

\* teammate_counter[full] += 1
increment(counter, key) ==
    IF key \in DOMAIN counter
    THEN [counter EXCEPT ![key] = @ + 1]
    ELSE [k \in DOMAIN counter \cup {key} |-> IF k = key THEN 1 ELSE counter[k]]

\* lines 35-47, one roster entry.  st is [raised, counter, counted]: counted lists
\* the entries that incremented a count, with the key each incremented.
count_character(st, character, subject) ==
    IF st.raised THEN st
    ELSE IF ~IsDict(character) THEN [st EXCEPT !.raised = TRUE]   \* character.get
    ELSE LET name == Get(character, "name")
             realm == resolve_realm(character)
             full == full_identity(name, realm)
         IN  IF ~IsStr(name) THEN [st EXCEPT !.raised = TRUE]     \* name.lower()
             ELSE IF is_self(name, subject) THEN st
             ELSE [st EXCEPT !.counter = increment(st.counter, full.v),
                             !.counted = Append(st.counted,
                                                [entry |-> character, key |-> full.v])]

RECURSIVE count_roster(_, _, _)
count_roster(st, roster, subject) ==
    IF Len(roster) = 0 THEN st
    ELSE count_roster(count_character(st, Head(roster), subject), Tail(roster), subject)

----------------------------------------------------------------------------
(* api.py: scrape_character_id, fetch_dungeon_ids, fetch_runs_for_dungeon *)

\* A profile page, by what the extraction finds in it: whether the request
\* succeeded, the id the regular expressions match in the page text (0: no
\* match), the id the scan of the script blocks finds (0: none).
Pages == [status_ok : BOOLEAN, regex : {0, 7}, script : {0, 7}]

scrape_character_id(page) ==
    IF ~page.status_ok THEN Raise("RequestFailed")
    ELSE IF page.regex # 0 THEN Ok(page.regex)
    ELSE IF page.script # 0 THEN Ok(page.script)
    ELSE Raise("RuntimeError")

ProfileFields == <<"mythic_plus_best_runs", "mythic_plus_alternate_runs",
                   "mythic_plus_recent_runs">>

\* the truthy zone_id values of one field's runs
field_zone_ids(payload, field) ==
    LET rs == GetDefault(payload, field, EmptyList).v
    IN  {Get(rs[i], "zone_id").v : i \in {j \in DOMAIN rs : Truthy(Get(rs[j], "zone_id"))}}

RECURSIVE sorted(_)
sorted(S) ==
    IF S = {} THEN <<>>
    ELSE LET m == CHOOSE x \in S : \A y \in S : x <= y
         IN  <<m>> \o sorted(S \ {m})

\* the truthy zone_id values of one field's runs, in the order of the runs
field_zone_id_list(payload, field) ==
    LET rs == GetDefault(payload, field, EmptyList).v
        zs == [i \in DOMAIN rs |-> Get(rs[i], "zone_id")]
        kept == SelectSeq(zs, Truthy)
    IN  [i \in DOMAIN kept |-> kept[i].v]

\* A mutated fetch_dungeon_ids: the zone ids are gathered in a list, not a set.
fetch_dungeon_ids_unmerged(response) ==
    IF ~response.ok THEN Raise("RequestFailed")
    ELSE Ok(field_zone_id_list(response.data, ProfileFields[1])
            \o field_zone_id_list(response.data, ProfileFields[2])
            \o field_zone_id_list(response.data, ProfileFields[3]))

fetch_dungeon_ids(response) ==
    IF ~response.ok THEN Raise("RequestFailed")
    ELSE Ok(sorted(UNION {field_zone_ids(response.data, ProfileFields[i]) : i \in 1..3}))

fetch_runs_for_dungeon(response) ==
    IF ~response.ok THEN Raise("RequestFailed")
    ELSE IF IsDict(response.data)
    THEN Ok(Or(Or(Get(response.data, "runs"), Get(response.data, "data")), EmptyList))
    ELSE Ok(response.data)

----------------------------------------------------------------------------
(* character_runs.py / main.py: the deduplicating discovery loop *)

\* A mutated loop body: the run id is never added to seen_run_ids.
collect_run_forgetful(st, run) ==
    LET run_id == extract_run_id(run)
    IN  IF Truthy(run_id) /\ run_id \notin st.seen
        THEN [st EXCEPT !.runs = Append(st.runs, run)]
        ELSE st

\* lines 30-34 (main.py 285-289), one run record.  st is [runs, seen].
collect_run(st, run) ==
    LET run_id == extract_run_id(run)
    IN  IF Truthy(run_id) /\ run_id \notin st.seen
        THEN [runs |-> Append(st.runs, run), seen |-> st.seen \cup {run_id}]
        ELSE st

RECURSIVE collect_runs(_, _)
collect_runs(st, list) ==
    IF Len(list) = 0 THEN st
    ELSE collect_runs(collect_run(st, Head(list)), Tail(list))

----------------------------------------------------------------------------
(* analytics.py: plot_teammates *)

TopTeammates == 20

Min(a, b) == IF a <= b THEN a ELSE b

\* counter.most_common(20) as a mapping: the 20 highest counts
most_common(counter) ==
    LET keys == DOMAIN counter
        top == CHOOSE S \in SUBSET keys :
                   /\ Cardinality(S) = Min(TopTeammates, Cardinality(keys))
                   /\ \A a \in S, b \in keys \ S : counter[a] >= counter[b]
    IN  [k \in top |-> counter[k]]

NoChart == [saved |-> FALSE, bars |-> <<>>, name |-> EmptyStr, total |-> 0]

plot_teammates(counter, player_name, total_runs) ==
    IF DOMAIN counter = {} THEN NoChart
    ELSE [saved |-> TRUE, bars |-> most_common(counter), name |-> player_name,
          total |-> total_runs]

----------------------------------------------------------------------------
(* Inputs *)

Al == <<"A", "l">>
Bo == <<"B", "o">>
Ca == <<"C", "a">>
Sr == <<"s", "r">>

\* cfg["name"]
SelfNames == {PyStr(Al), PyStr(<<"a", "L">>)}

RunIds == {PyInt(i) : i \in 1..MaxRunId}

\* Run records of the pipeline: an id at the top level, the id 1 inside
\* `summary`, an empty `keystone_run_id` beside an `id`, and no id at all.
RunPool ==
    {PyDict([id |-> r]) : r \in RunIds}
    \cup {PyDict([summary |-> PyDict([keystone_run_id |-> PyInt(1)])]),
          PyDict([keystone_run_id |-> PyInt(0), id |-> PyInt(MaxRunId)]),
          EmptyDict}

RECURSIVE SeqsUpTo(_, _)
SeqsUpTo(S, n) ==
    IF n = 0 THEN {<<>>}
    ELSE LET shorter == SeqsUpTo(S, n - 1)
         IN  shorter \cup {Append(q, x) : q \in {r \in shorter : Len(r) = n - 1}, x \in S}

\* What the per-dungeon runs endpoint answers: a failure, a bare list, or the
\* list under `runs` or `data`; at most n records.
RunListResponses(n) ==
    {RequestFailed}
    \cup {Body(PyList(l)) : l \in SeqsUpTo(RunPool, n)}
    \cup {Body(PyDict([runs |-> PyList(l)])) : l \in SeqsUpTo(RunPool, n)}
    \cup {Body(PyDict([data |-> PyList(l)])) : l \in SeqsUpTo(RunPool, n)}

ZoneRun(z) == PyDict([zone_id |-> PyInt(z)])

\* What the profile endpoint answers: a failure, a profile without any of the
\* three fields, or a profile whose best runs hold the dungeon z and a run
\* without zone_id, whose alternate runs hold the dungeon w and a run with
\* zone_id 0, and whose recent runs hold z again.
ProfileResponses ==
    {RequestFailed, Body(EmptyDict)}
    \cup {Body(PyDict([mythic_plus_best_runs |-> PyList(<<ZoneRun(z), EmptyDict>>),
                       mythic_plus_alternate_runs |-> PyList(<<ZoneRun(w), ZoneRun(0)>>),
                       mythic_plus_recent_runs |-> PyList(<<ZoneRun(z)>>)])) :
            z \in 1..MaxDungeons, w \in 1..MaxDungeons}

Entry(name, realm) == PyDict([name |-> PyStr(name), realm |-> realm])
Named(name) == PyDict([name |-> PyStr(name)])
Wrapped(character) == PyDict([character |-> character])
Slug(s) == PyDict([slug |-> PyStr(s)])

\* What the run-details endpoint answers.
RosterResponses ==
    { RequestFailed,
      \* shape 1, wrapped; the subject and Bob with a realm object
      Body(PyDict([roster |-> PyList(<<Wrapped(Entry(Al, PyStr(<<"a", "5", "2">>))),
                                       Wrapped(Entry(Bo, Slug(Sr)))>>)])),
      \* shape 1, unwrapped; the subject in another casing and Carol without realm
      Body(PyDict([roster |-> PyList(<<Entry(<<"a", "l">>, PyStr(<<"A", "5", "2">>)),
                                       Named(Ca)>>)])),
      \* shape 2; Bob with a plain realm, the subject with a realm object
      Body(PyDict([participants |-> PyList(<<Entry(Bo, PyStr(Sr)),
                                             Entry(<<"A", "L">>, Slug(Sr))>>)])),
      \* shape 3; Bob in both encounters
      Body(PyDict([logged_details |-> PyDict([encounters |-> PyList(<<
              PyDict([roster |-> PyList(<<Wrapped(Named(Bo))>>)]),
              PyDict([roster |-> PyList(<<Wrapped(Named(Bo)), Named(Ca)>>)])>>)])])),
      \* shape 1; an entry without `name`, then Carol
      Body(PyDict([roster |-> PyList(<<PyDict([realm |-> PyStr(Sr)]), Named(Ca)>>)])),
      \* an empty `roster` beside a `characters` list
      Body(PyDict([roster |-> EmptyList, characters |-> PyList(<<Named(Ca)>>)])),
      \* shape 4
      Body(PyDict([characters |-> PyList(<<Named(Bo)>>)])) }

\* The answers the whole pipeline is run against: a failure, a roster that
\* counts, a roster with an entry without `name`.
PipelineRosterResponses ==
    { RequestFailed,
      Body(PyDict([roster |-> PyList(<<Wrapped(Entry(Al, PyStr(<<"a", "5", "2">>))),
                                       Wrapped(Entry(Bo, Slug(Sr)))>>)])),
      Body(PyDict([roster |-> PyList(<<PyDict([realm |-> PyStr(Sr)]), Named(Ca)>>)])) }

----------------------------------------------------------------------------
(* The pipeline: main() *)

NoResult == [returned |-> FALSE, counter |-> <<>>]

Event(op, key, ok) == [op |-> op, key |-> key, ok |-> ok]

PoliteDelayMs == 50
Sleep == Event("sleep", PyInt(PoliteDelayMs), TRUE)

Fresh ==
    /\ error = ""
    /\ character_id = 0
    /\ profile = PyNone
    /\ dungeon_ids = <<>>
    /\ d_idx = 1
    /\ fetched = <<>>
    /\ seen_run_ids = {}
    /\ idx = 1
    /\ teammate_counter = <<>>
    /\ outcomes = <<>>
    /\ calls = <<>>
    /\ result = NoResult
    /\ chart = NoChart
    /\ ret = PyNone

Init ==
    /\ pc = "resolve"
    /\ self_name = PyStr(Al)
    /\ runs = <<>>
    /\ arg = PyNone
    /\ Fresh

\* main.py 270-272 / character_runs.py 16
Resolve ==
    /\ pc = "resolve"
    /\ \E page \in Pages :
         LET r == scrape_character_id(page)
         IN  /\ calls' = Append(calls, Event("page", PyNone, r.ok))
             /\ IF r.ok
                THEN /\ character_id' = r.v
                     /\ pc' = "profile"
                     /\ error' = error
                ELSE /\ character_id' = character_id
                     /\ pc' = "aborted"
                     /\ error' = r.e
    /\ UNCHANGED <<self_name, profile, dungeon_ids, d_idx, fetched, runs, seen_run_ids, idx,
                   teammate_counter, outcomes, result, chart, arg, ret>>

\* main.py 276-278 / character_runs.py 18-20
FetchDungeonIds ==
    /\ pc = "profile"
    /\ \E response \in ProfileResponses :
         LET r == fetch_dungeon_ids(response)
         IN  /\ calls' = Append(calls, Event("profile", PyNone, r.ok))
             /\ profile' = response.data
             /\ IF r.ok
                THEN /\ dungeon_ids' = r.v
                     /\ pc' = "discover"
                     /\ error' = error
                ELSE /\ dungeon_ids' = dungeon_ids
                     /\ pc' = "aborted"
                     /\ error' = r.e
    /\ UNCHANGED <<self_name, character_id, d_idx, fetched, runs, seen_run_ids, idx,
                   teammate_counter, outcomes, result, chart, arg, ret>>

\* A mutated loop iteration: a failed run-list fetch is skipped, not raised.
FetchRunsForDungeonLenient ==
    /\ pc = "discover"
    /\ d_idx <= Len(dungeon_ids)
    /\ \E response \in RunListResponses(MaxFetched - Len(fetched)) :
         LET r == fetch_runs_for_dungeon(response)
             st == collect_runs([runs |-> runs, seen |-> seen_run_ids], r.v.v)
         IN  /\ calls' = Append(calls, Event("runs", PyInt(dungeon_ids[d_idx]), r.ok))
             /\ IF r.ok
                THEN /\ fetched' = fetched \o r.v.v
                     /\ runs' = st.runs
                     /\ seen_run_ids' = st.seen
                ELSE UNCHANGED <<fetched, runs, seen_run_ids>>
             /\ d_idx' = d_idx + 1
             /\ UNCHANGED <<pc, error>>
    /\ UNCHANGED <<self_name, character_id, profile, dungeon_ids, idx, teammate_counter,
                   outcomes, result, chart, arg, ret>>

\* main.py 283-289 / character_runs.py 25-32: one iteration of the dungeon loop
FetchRunsForDungeon ==
    /\ pc = "discover"
    /\ d_idx <= Len(dungeon_ids)
    /\ \E response \in RunListResponses(MaxFetched - Len(fetched)) :
         LET r == fetch_runs_for_dungeon(response)
             st == collect_runs([runs |-> runs, seen |-> seen_run_ids], r.v.v)
         IN  /\ calls' = Append(calls, Event("runs", PyInt(dungeon_ids[d_idx]), r.ok))
             /\ IF r.ok
                THEN /\ fetched' = fetched \o r.v.v
                     /\ runs' = st.runs
                     /\ seen_run_ids' = st.seen
                     /\ d_idx' = d_idx + 1
                     /\ UNCHANGED <<pc, error>>
                ELSE /\ pc' = "aborted"
                     /\ error' = r.e
                     /\ UNCHANGED <<fetched, runs, seen_run_ids, d_idx>>
    /\ UNCHANGED <<self_name, character_id, profile, dungeon_ids, idx, teammate_counter,
                   outcomes, result, chart, arg, ret>>

\* main.py 291-293 / character_runs.py 34-36: the loop is over
DiscoveryDone ==
    /\ pc = "discover"
    /\ d_idx > Len(dungeon_ids)
    /\ pc' = "aggregate"
    /\ UNCHANGED <<error, self_name, character_id, profile, dungeon_ids, d_idx, fetched, runs,
                   seen_run_ids, idx, teammate_counter, outcomes, calls, result, chart,
                   arg, ret>>

----------------------------------------------------------------------------
(* analytics.py / main.py: build_teammate_stats and plot_teammates *)

Outcome(run, status, roster, counted) ==
    [run |-> run, status |-> status, roster |-> roster, counted |-> counted]

\* analytics.py 22-49 (main.py 209-228): one iteration of the run loop, the
\* run-details endpoint answering with one of Responses
ProcessRunFrom(Responses) ==
    /\ pc = "aggregate"
    /\ idx <= Len(runs)
    /\ LET run == runs[idx]
           run_id == extract_run_id(run)
       IN  IF ~Truthy(run_id)
           THEN \* continue
                /\ outcomes' = Append(outcomes, Outcome(run, "no id", PyNone, <<>>))
                /\ idx' = idx + 1
                /\ UNCHANGED <<pc, error, teammate_counter, calls>>
           ELSE \E response \in Responses :
                  LET r == fetch_run_roster(response)
                      st == count_roster([raised |-> FALSE, counter |-> teammate_counter,
                                          counted |-> <<>>], r.v.v, self_name)
                  IN  IF ~r.ok
                      THEN \* except Exception: continue
                           /\ outcomes' = Append(outcomes, Outcome(run, "failed", PyNone, <<>>))
                           /\ calls' = Append(calls, Event("roster", run_id, FALSE))
                           /\ idx' = idx + 1
                           /\ UNCHANGED <<pc, error, teammate_counter>>
                      ELSE IF ~IsList(r.v)
                      THEN \* for character in roster: not iterable
                           /\ outcomes' = Append(outcomes, Outcome(run, "raised", r.v, <<>>))
                           /\ calls' = Append(calls, Event("roster", run_id, TRUE))
                           /\ pc' = "aborted"
                           /\ error' = "TypeError"
                           /\ UNCHANGED <<idx, teammate_counter>>
                      ELSE IF st.raised
                      THEN \* character.get or name.lower() raises
                           /\ outcomes' = Append(outcomes, Outcome(run, "raised", r.v, st.counted))
                           /\ calls' = Append(calls, Event("roster", run_id, TRUE))
                           /\ pc' = "aborted"
                           /\ error' = "AttributeError"
                           /\ UNCHANGED <<idx, teammate_counter>>
                      ELSE /\ outcomes' = Append(outcomes, Outcome(run, "ok", r.v, st.counted))
                           /\ teammate_counter' = st.counter
                           /\ calls' = calls \o <<Event("roster", run_id, TRUE), Sleep>>
                           /\ idx' = idx + 1
                           /\ UNCHANGED <<pc, error>>
    /\ UNCHANGED <<self_name, character_id, profile, dungeon_ids, d_idx, fetched, runs,
                   seen_run_ids, result, chart, arg, ret>>

ProcessRun == ProcessRunFrom(RosterResponses)

PipelineProcessRun == ProcessRunFrom(PipelineRosterResponses)

\* analytics.py 51 (main.py 229): return teammate_counter
StatsReturn ==
    /\ pc = "aggregate"
    /\ idx > Len(runs)
    /\ result' = [returned |-> TRUE, counter |-> teammate_counter]
    /\ pc' = "plot"
    /\ UNCHANGED <<error, self_name, character_id, profile, dungeon_ids, d_idx, fetched, runs,
                   seen_run_ids, idx, teammate_counter, outcomes, calls, chart, arg, ret>>

\* main.py 296-297
Plot ==
    /\ pc = "plot"
    /\ chart' = plot_teammates(result.counter, self_name, Len(runs))
    /\ pc' = "done"
    /\ UNCHANGED <<error, self_name, character_id, profile, dungeon_ids, d_idx, fetched, runs,
                   seen_run_ids, idx, teammate_counter, outcomes, calls, result, arg, ret>>

Next ==
    \/ Resolve
    \/ FetchDungeonIds
    \/ FetchRunsForDungeon
    \/ DiscoveryDone
    \/ PipelineProcessRun
    \/ StatsReturn
    \/ Plot

Spec == Init /\ [][Next]_vars

----------------------------------------------------------------------------
(* build_teammate_stats called on its own, on any run list *)

InitStats ==
    /\ pc = "aggregate"
    /\ self_name \in SelfNames
    /\ runs \in SeqsUpTo(RunPool, MaxRuns)
    /\ arg = PyNone
    /\ Fresh

NextStats ==
    \/ ProcessRun
    \/ StatsReturn

SpecStats == InitStats /\ [][NextStats]_vars

----------------------------------------------------------------------------
(* extract_run_id, fetch_run_roster and the roster loop's body applied to one input *)

Returns(value) ==
    /\ pc = "call"
    /\ ret' = value
    /\ pc' = "returned"
    /\ UNCHANGED <<error, self_name, character_id, profile, dungeon_ids, d_idx, fetched, runs,
                   seen_run_ids, idx, teammate_counter, outcomes, calls, result, chart,
                   arg>>

\* empty values (0, "") and the ids
IdValues == {PyInt(i) : i \in 0..MaxRunId} \cup {EmptyStr}

IdKeys == {"keystone_run_id", "id"}

Summaries ==
    {PyStr(<<"x">>)}
    \cup {PyDict(Restrict(f, K)) : f \in [IdKeys -> IdValues], K \in SUBSET IdKeys}

\* every record with any of keystone_run_id, id, summary, and some values that
\* are no records
RunRecords ==
    {PyDict(Restrict([k \in IdKeys \cup {"summary"} |-> IF k = "summary" THEN s ELSE f[k]], K)) :
        f \in [IdKeys -> IdValues], s \in Summaries, K \in SUBSET (IdKeys \cup {"summary"})}
    \cup {PyNone, PyInt(1), EmptyList, PyStr(<<"x">>)}

InitExtract ==
    /\ pc = "call"
    /\ self_name = PyStr(Al)
    /\ runs = <<>>
    /\ arg \in RunRecords
    /\ Fresh

ApplyExtractRunId == Returns(extract_run_id(arg))

NextExtract == ApplyExtractRunId

SpecExtract == InitExtract /\ [][NextExtract]_vars

\* run-details bodies: each of the four shapes absent or in one of its forms
RosterForms ==
    {EmptyList, PyList(<<Named(Bo)>>), PyList(<<Wrapped(Named(Bo))>>),
     PyList(<<Wrapped(Named(Bo)), Named(Al)>>)}

ParticipantsForms == {EmptyList, PyList(<<Named(Ca)>>), PyNone}

LoggedForms ==
    {PyNone, EmptyDict, PyDict([encounters |-> EmptyList]),
     PyDict([encounters |-> PyList(<<EmptyDict>>)]),
     PyDict([encounters |-> PyList(<<PyDict([roster |-> PyList(<<Wrapped(PyNone)>>)])>>)]),
     PyDict([encounters |-> PyList(<<PyDict([roster |-> PyList(<<Wrapped(Named(Sr))>>)])>>)]),
     PyDict([encounters |-> PyList(<<PyDict([roster |-> PyList(<<Named(Sr)>>)]),
                                     PyDict([roster |-> PyList(<<Named(Sr), Named(Al)>>)])>>)])}

CharactersForms == {EmptyList, PyList(<<Named(<<"D">>)>>)}

ShapeKeys == {"roster", "participants", "logged_details", "characters"}

RosterBodies ==
    {PyDict(Restrict([roster |-> r, participants |-> p, logged_details |-> l,
                      characters |-> c], K)) :
        r \in RosterForms, p \in ParticipantsForms, l \in LoggedForms,
        c \in CharactersForms, K \in SUBSET ShapeKeys}

InitRoster ==
    /\ pc = "call"
    /\ self_name = PyStr(Al)
    /\ runs = <<>>
    /\ arg \in {RequestFailed} \cup {Body(b) : b \in RosterBodies}
    /\ Fresh

ApplyFetchRunRoster == Returns(fetch_run_roster(arg))

NextRoster == ApplyFetchRunRoster

SpecRoster == InitRoster /\ [][NextRoster]_vars

\* roster entries: `name`, `realm` and `realm_slug` each absent or in one of
\* its forms
NameForms == {PyNone, EmptyStr, PyStr(Bo), PyStr(<<"A", "L">>)}

RealmForms ==
    {PyNone, EmptyStr, PyStr(Sr), EmptyDict, Slug(Sr),
     PyDict([name |-> PyStr(<<"N">>)]),
     PyDict([slug |-> PyStr(Sr), name |-> PyStr(<<"N">>)]),
     PyDict([slug |-> EmptyStr, name |-> PyStr(<<"N">>)]),
     PyDict([id |-> PyInt(1)])}

RealmSlugForms == {EmptyStr, PyStr(<<"x">>)}

EntryKeys == {"name", "realm", "realm_slug"}

Entries ==
    {PyDict(Restrict([name |-> n, realm |-> r, realm_slug |-> g], K)) :
        n \in NameForms, r \in RealmForms, g \in RealmSlugForms, K \in SUBSET EntryKeys}

InitIdentity ==
    /\ pc = "call"
    /\ self_name \in SelfNames
    /\ runs = <<>>
    /\ arg \in Entries
    /\ Fresh

ApplyCountCharacter ==
    Returns(count_character([raised |-> FALSE, counter |-> <<>>, counted |-> <<>>],
                            arg, self_name))

NextIdentity == ApplyCountCharacter

SpecIdentity == InitIdentity /\ [][NextIdentity]_vars

----------------------------------------------------------------------------
(* Properties *)

HasId(run) == Truthy(extract_run_id(run))

\* the positions of s holding the first occurrence of an extractable run id
FirstOccurrences(s) ==
    {k \in DOMAIN s :
        /\ HasId(s[k])
        /\ \A j \in 1..(k - 1) : extract_run_id(s[j]) # extract_run_id(s[k])}

\* the elements of s at the positions I from k on, in the order of s
RECURSIVE SubSeqFrom(_, _, _)
SubSeqFrom(s, I, k) ==
    IF k > Len(s) THEN <<>>
    ELSE (IF k \in I THEN <<s[k]>> ELSE <<>>) \o SubSeqFrom(s, I, k + 1)

SubSeqAt(s, I) == SubSeqFrom(s, I, 1)

\* C1 (Spec): at every point of the discovery loop and after it, the run list
\* holds each extractable run id of the records fetched so far exactly once, as
\* the record of its first occurrence in discovery order; it holds no record
\* without an extractable id, and it is the same list that the fetched records
\* with the id-less ones removed would give.
C1_RunsDeduplicated ==
    /\ \A i, j \in DOMAIN runs :
         i # j => extract_run_id(runs[i]) # extract_run_id(runs[j])
    /\ \A i \in DOMAIN runs : HasId(runs[i])
    /\ {extract_run_id(runs[i]) : i \in DOMAIN runs}
          = {extract_run_id(fetched[k]) : k \in {j \in DOMAIN fetched : HasId(fetched[j])}}
    /\ runs = SubSeqAt(fetched, FirstOccurrences(fetched))
    /\ LET identified == SelectSeq(fetched, HasId)
       IN  runs = SubSeqAt(identified, FirstOccurrences(identified))
    /\ seen_run_ids = {extract_run_id(runs[i]) : i \in DOMAIN runs}

\* C1 witness: discovery is over after two run-list fetches that returned three
\* records: the id 1 twice, in two different record shapes, and a record
\* without id; one run was kept.
C1_Witness ==
    /\ pc = "aggregate"
    /\ Cardinality({i \in DOMAIN calls : calls[i].op = "runs"}) = 2
    /\ Len(fetched) = 3
    /\ \E i, j \in DOMAIN fetched :
         /\ i < j
         /\ fetched[i] # fetched[j]
         /\ HasId(fetched[i])
         /\ extract_run_id(fetched[i]) = extract_run_id(fetched[j])
    /\ \E k \in DOMAIN fetched : ~HasId(fetched[k])
    /\ Len(runs) = 1

\* the values extract_run_id may return for a record, in their order
Candidates(run) ==
    IF ~IsDict(run) THEN <<>>
    ELSE <<Get(run, "keystone_run_id"), Get(run, "id")>>
         \o (IF IsDict(Get(run, "summary"))
             THEN <<Get(Get(run, "summary"), "keystone_run_id"), Get(Get(run, "summary"), "id")>>
             ELSE <<>>)

\* C5 (SpecExtract): extract_run_id returns the first non-empty value among the
\* top-level keystone_run_id, the top-level id and, when summary is an object,
\* summary.keystone_run_id and summary.id; when none is non-empty it returns no
\* identifier (None, or an empty value no caller takes for an id), and None for
\* an input that is no record.
C5_ExtractionOrder ==
    pc = "returned" =>
        LET c == Candidates(arg)
            nonempty == {i \in DOMAIN c : Truthy(c[i])}
        IN  /\ nonempty # {} =>
                 ret = c[CHOOSE i \in nonempty : \A j \in nonempty : i <= j]
            /\ nonempty = {} => ~Truthy(ret)
            /\ ~IsDict(arg) => ret = PyNone

\* C5 witness: keystone_run_id and id are present and empty at the top level,
\* summary.keystone_run_id is empty, and summary.id was returned.
C5_Witness ==
    /\ pc = "returned"
    /\ IsDict(arg)
    /\ IdKeys \cup {"summary"} \subseteq DOMAIN arg.v
    /\ IsDict(arg.v["summary"])
    /\ HasKey(arg.v["summary"], "keystone_run_id")
    /\ ~Truthy(Get(arg.v["summary"], "keystone_run_id"))
    /\ Truthy(ret)
    /\ ret = Get(arg.v["summary"], "id")

\* what each of the four shapes of a run-details body yields
ShapeYield(data, n) ==
    CASE n = 1 -> IF HasKey(data, "roster") /\ IsList(data.v["roster"])
                  THEN [i \in DOMAIN data.v["roster"].v |->
                          unwrap_character(data.v["roster"].v[i])]
                  ELSE <<>>
      [] n = 2 -> IF HasKey(data, "participants") /\ IsList(data.v["participants"])
                  THEN data.v["participants"].v
                  ELSE <<>>
      [] n = 3 -> LET logged == Or(Get(data, "logged_details"), EmptyDict)
                  IN  IF logged_raises(logged) THEN <<>>
                      ELSE logged_characters(GetDefault(logged, "encounters", EmptyList).v)
      [] n = 4 -> GetDefault(data, "characters", EmptyList).v

\* C6 (SpecRoster), as claimed: a roster that fetch_run_roster returns is the
\* yield of the first of the four shapes that yields any participant, and is
\* empty only when none of the four does.
C6_FirstNonEmptyShape ==
    (pc = "returned" /\ ret.ok /\ IsList(ret.v)) =>
        LET yielding == {n \in 1..4 : Len(ShapeYield(arg.data, n)) # 0}
        IN  IF yielding = {} THEN Len(ret.v.v) = 0
            ELSE ret.v.v = ShapeYield(arg.data, CHOOSE n \in yielding : \A m \in yielding : n <= m)

\* the realm of a roster entry: `realm` if present and non-empty, else
\* `realm_slug`, else empty; of a realm object its `slug`, else its `name`,
\* else empty
DocumentedRealm(entry) ==
    LET given == IF HasKey(entry, "realm") /\ Truthy(entry.v["realm"]) THEN entry.v["realm"]
                 ELSE IF HasKey(entry, "realm_slug") THEN entry.v["realm_slug"]
                 ELSE EmptyStr
    IN  IF ~IsDict(given) THEN given
        ELSE IF HasKey(given, "slug") /\ Truthy(given.v["slug"]) THEN given.v["slug"]
        ELSE IF HasKey(given, "name") /\ Truthy(given.v["name"]) THEN given.v["name"]
        ELSE EmptyStr

DocumentedIdentity(entry) ==
    IF Truthy(DocumentedRealm(entry))
    THEN entry.v["name"].v \o <<"-">> \o DocumentedRealm(entry).v
    ELSE entry.v["name"].v

IsSelfEntry(entry) ==
    /\ IsDict(entry)
    /\ IsStr(Get(entry, "name"))
    /\ Lower(Get(entry, "name").v) = Lower(self_name.v)

\* C7 (SpecIdentity): a roster entry with a name that is not the subject's
\* increments exactly the key `name-realm` when its resolved realm is non-empty
\* and the key `name` otherwise, the count going from absent to 1.
C7_IdentityNormalization ==
    (pc = "returned" /\ IsStr(Get(arg, "name")) /\ ~IsSelfEntry(arg)) =>
        /\ ~ret.raised
        /\ DOMAIN ret.counter = {DocumentedIdentity(arg)}
        /\ ret.counter[DocumentedIdentity(arg)] = 1

\* C7 witness: an entry whose realm is an object with only `name` was counted
\* under `name-realm`.
C7_Witness ==
    /\ pc = "returned"
    /\ HasKey(arg, "realm")
    /\ IsDict(arg.v["realm"])
    /\ DOMAIN arg.v["realm"].v = {"name"}
    /\ ~ret.raised
    /\ DOMAIN ret.counter = {Bo \o <<"-", "N">>}

DiscoveryOps == {"page", "profile", "runs"}

\* C9 (Spec): a failed identity resolution, profile fetch or run-list fetch is
\* the last outbound request of the pipeline: it ends with that error, no
\* roster fetch follows, no mapping is returned and no chart is saved; a failed
\* roster fetch does not end the pipeline with its error.
C9_DiscoveryFailureIsFatal ==
    /\ \A i \in DOMAIN calls :
         (calls[i].op \in DiscoveryOps /\ ~calls[i].ok) =>
            /\ i = Len(calls)
            /\ pc = "aborted"
            /\ error \in (IF calls[i].op = "page" THEN {"RequestFailed", "RuntimeError"}
                          ELSE {"RequestFailed"})
            /\ ~result.returned
            /\ ~chart.saved
            /\ outcomes = <<>>
    /\ \A i \in DOMAIN calls :
         (calls[i].op = "roster" /\ ~calls[i].ok) => error # "RequestFailed"

\* C9 witness: a run-list fetch failed after an earlier one had discovered a run.
C9_Witness ==
    /\ pc = "aborted"
    /\ error = "RequestFailed"
    /\ Len(runs) >= 1
    /\ calls[Len(calls)].op = "runs"
    /\ ~calls[Len(calls)].ok

\* the runs whose roster was fetched and counted to its end
Processed == {i \in DOMAIN outcomes : outcomes[i].status = "ok"}

\* the entries that incremented a count, as <<run, position>>
Increments == UNION {{<<i, n>> : n \in DOMAIN outcomes[i].counted} : i \in Processed}

CountedAt(p) == outcomes[p[1]].counted[p[2]]

\* the mapping that the rosters of the runs in I give: for each key, the
\* entries of these rosters counted under it
Tally(I) ==
    LET incs == {p \in Increments : p[1] \in I}
    IN  [k \in {CountedAt(p).key : p \in incs} |->
            Cardinality({p \in incs : CountedAt(p).key = k})]

\* C2 (SpecStats), as claimed: when roster fetches fail, build_teammate_stats
\* still ends without raising, every run after a failed one is fetched in its
\* turn, and the mapping returned is the one the runs without the failed ones
\* give.
C2_PartialFailureTolerated ==
    (\E i \in DOMAIN outcomes : outcomes[i].status = "failed") =>
        /\ pc # "aborted"
        /\ result.returned =>
              /\ Len(outcomes) = Len(runs)
              /\ result.counter = Tally(Processed)

\* C3 (SpecStats): no roster entry whose name equals the subject's name in any
\* casing, whatever its realm, ever increments a count: the counts are exactly
\* the tally of the other entries of the rosters processed.
C3_SelfExclusion ==
    /\ \A i \in DOMAIN outcomes : \A n \in DOMAIN outcomes[i].counted :
         ~IsSelfEntry(outcomes[i].counted[n].entry)
    /\ teammate_counter = Tally(Processed)
    /\ result.returned => result.counter = Tally(Processed)

\* C3 witness: the mapping was returned after a roster was processed that holds
\* the subject's name in another casing, with a realm object, beside a teammate
\* who was counted.
C3_Witness ==
    /\ result.returned
    /\ \E i \in Processed : \E n \in DOMAIN outcomes[i].roster.v :
         LET e == outcomes[i].roster.v[n]
         IN  /\ IsSelfEntry(e)
             /\ Get(e, "name") # self_name
             /\ IsDict(Get(e, "realm"))
             /\ outcomes[i].counted # <<>>

\* a roster entry without a usable name
Nameless(entry) == IsDict(entry) /\ ~IsStr(Get(entry, "name"))

\* C4 (SpecStats), as claimed: a roster with an entry that has no usable name
\* is processed to its end without an error: the entry is dropped, the other
\* entries that are not the subject's are counted, and the loop goes on.
C4_MalformedEntryDropped ==
    \A i \in DOMAIN outcomes :
        LET o == outcomes[i]
        IN  (IsList(o.roster) /\ \E n \in DOMAIN o.roster.v : Nameless(o.roster.v[n])) =>
                /\ o.status = "ok"
                /\ pc # "aborted"
                /\ Len(o.counted) =
                      Cardinality({n \in DOMAIN o.roster.v :
                                      ~Nameless(o.roster.v[n]) /\ ~IsSelfEntry(o.roster.v[n])})

\* C8 (SpecStats), as claimed: the count of a teammate is the number of
\* processed runs whose roster counted that teammate, so no count exceeds the
\* number of processed runs.
C8_CountsRuns ==
    \A k \in DOMAIN teammate_counter :
        /\ teammate_counter[k] =
              Cardinality({i \in Processed :
                              \E n \in DOMAIN outcomes[i].counted : outcomes[i].counted[n].key = k})
        /\ teammate_counter[k] <= Cardinality(Processed)

\* C10 (SpecStats), as claimed: between any two successive roster fetches there
\* is a pause, whether the earlier fetch succeeded or failed.
C10_PauseBetweenFetches ==
    \A i, j \in DOMAIN calls :
        (i < j /\ calls[i].op = "roster" /\ calls[j].op = "roster") =>
            \E k \in (i + 1)..(j - 1) : calls[k] = Sleep

IsRequest(c) == c.op # "sleep"

\* the stage of an outbound request
Stage(op) ==
    CASE op = "page" -> 1 [] op = "profile" -> 2 [] op = "runs" -> 3 [] op = "roster" -> 4

\* the distinct dungeon ids a profile body holds: the zone_id of every best,
\* alternate or recent run that has one
ProfileDungeonIds(body) ==
    IF ~IsDict(body) THEN {}
    ELSE UNION {
           LET rs == IF HasKey(body, ProfileFields[f]) THEN body.v[ProfileFields[f]].v ELSE <<>>
           IN  {rs[i].v["zone_id"].v :
                  i \in {j \in DOMAIN rs : HasKey(rs[j], "zone_id") /\ rs[j].v["zone_id"].v # 0}}
           : f \in 1..3}

\* C11 (Spec): the outbound requests of the pipeline come in stages: first the
\* profile page (once), then the profile (once), then one run-list request per
\* distinct dungeon id of the profile, none twice and none for an entry without
\* zone id, and only when every such dungeon has been requested the roster
\* requests, which follow the discovered runs in their order, one per run, none
\* repeated.
C11_StageOrder ==
    LET reqs == SelectSeq(calls, IsRequest)
        of(op) == {i \in DOMAIN reqs : reqs[i].op = op}
        rosters == SelectSeq(calls, LAMBDA c : c.op = "roster")
    IN  /\ \A i, j \in DOMAIN reqs : i < j => Stage(reqs[i].op) <= Stage(reqs[j].op)
        /\ Len(reqs) >= 1 => reqs[1].op = "page"
        /\ Len(reqs) >= 2 => reqs[2].op = "profile"
        /\ Cardinality(of("page")) <= 1
        /\ Cardinality(of("profile")) <= 1
        /\ \A i, j \in of("runs") : i # j => reqs[i].key # reqs[j].key
        /\ \A i \in of("runs") : reqs[i].key.v \in ProfileDungeonIds(profile)
        /\ (of("roster") # {} \/ pc \in {"aggregate", "plot", "done"}) =>
              {reqs[i].key.v : i \in of("runs")} = ProfileDungeonIds(profile)
        /\ Len(rosters) <= Len(runs)
        /\ \A i \in DOMAIN rosters : rosters[i].key = extract_run_id(runs[i])

\* C11 witness: the pipeline is done; the profile named dungeon 2 in its best
\* and recent runs and dungeon 1 in its alternate runs, beside entries without
\* zone id; two runs were discovered, the roster request of the first failed
\* and that of the second succeeded.
C11_Witness ==
    /\ pc = "done"
    /\ IsDict(profile)
    /\ ProfileDungeonIds(profile) = {1, 2}
    /\ Get(Get(profile, "mythic_plus_best_runs").v[1], "zone_id") = PyInt(2)
    /\ Len(SelectSeq(calls, IsRequest)) = 6
    /\ Len(runs) = 2
    /\ \E i, j \in DOMAIN calls :
         /\ i < j
         /\ calls[i].op = "roster" /\ ~calls[i].ok
         /\ calls[j].op = "roster" /\ calls[j].ok

====
